---- MODULE Spec2Model ----
(***************************************************************************)
(* CDSSMPreprocessor (matchzoo/preprocessors/cdssm_preprocessor.py).       *)
(*                                                                         *)
(* The preprocessor instance is the record `self`; fit and transform are   *)
(* operators from an instance (and the call's arguments) to the instance   *)
(* after the call, the way the methods update their object.  A text is a   *)
(* sequence of one-character strings.  The process units, pack and         *)
(* validate_context are collaborators whose code is outside                *)
(* cdssm_preprocessor.py; they follow their description in the design      *)
(* document.  Labels of the input tuples play no part in the preprocessor  *)
(* and are left out of the records.                                        *)
(***************************************************************************)
EXTENDS Integers, Sequences, FiniteSets, TLC

VARIABLES self, last, hist

vars == <<self, last, hist>>

-----------------------------------------------------------------------------
(* Bounds and the inputs the calls draw from.                              *)

MaxTextLength == 2

MaxRecords == 2

PadValues == {0, 7}

Modes == {"pre", "post"}

Stages == {"train", "evaluate", "predict"}

Rec(l, r, tl, tr) == [left_id |-> l, right_id |-> r, text_left |-> tl, text_right |-> tr]

\* "Ab" / "abcd ."   "xyz a" / "abcde"   "xyz a" / ""
Corpus ==
    << Rec("L1", "R1", <<"A", "b">>, <<"a", "b", "c", "d", " ", ".">>),
       Rec("L2", "R2", <<"x", "y", "z", " ", "a">>, <<"a", "b", "c", "d", "e">>),
       Rec("L2", "R3", <<"x", "y", "z", " ", "a">>, <<>>) >>

\* Every run of at most MaxRecords consecutive records of the corpus.
Inputs ==
    { SubSeq(Corpus, i, j) : <<i, j>> \in
        { p \in (1..Len(Corpus)) \X (1..Len(Corpus)) :
            p[1] <= p[2] /\ p[2] - p[1] + 1 <= MaxRecords } }

-----------------------------------------------------------------------------
(* Values.                                                                 *)

Min(a, b) == IF a <= b THEN a ELSE b

Range(s) == { s[i] : i \in DOMAIN s }

RECURSIVE Concat(_)
Concat(ss) == IF ss = <<>> THEN <<>> ELSE Head(ss) \o Concat(Tail(ss))

\* self.data_pack = None
None == [kind |-> "None"]

\* a dict without keys
EmptyContext == [keys |-> {}, term_index |-> <<>>, input_shapes |-> <<>>]

\* attribute _dim_ngram is not set by __init__
Unset == -1

\* a table cell holding a str, and one holding a nested list of numbers
Str(chars) == [kind |-> "str", chars |-> chars, arr |-> <<>>]

Arr(a) == [kind |-> "array", chars |-> <<>>, arr |-> a]

\* a table row before transform has no length column
NoLength == -1

-----------------------------------------------------------------------------
(* Process units.                                                          *)

Punctuation == {".", ",", "!", "?"}

StopWords == { <<"a">>, <<"i", "s">>, <<"i", "n">> }

Lower(c) == CASE c = "A" -> "a" [] c = "B" -> "b" [] OTHER -> c

RECURSIVE Split(_, _, _)
Split(s, cur, acc) ==
    IF s = <<>>
    THEN IF cur = <<>> THEN acc ELSE Append(acc, cur)
    ELSE IF Head(s) = " "
         THEN Split(Tail(s), <<>>, IF cur = <<>> THEN acc ELSE Append(acc, cur))
         ELSE Split(Tail(s), Append(cur, Head(s)), acc)

TokenizeUnit(text) == Split(text, <<>>, <<>>)

LowercaseUnit(tokens) ==
    [i \in DOMAIN tokens |-> [j \in DOMAIN tokens[i] |-> Lower(tokens[i][j])]]

PuncRemovalUnit(tokens) ==
    SelectSeq(tokens, LAMBDA t : ~(Len(t) = 1 /\ t[1] \in Punctuation))

StopRemovalUnit(tokens) == SelectSeq(tokens, LAMBDA t : t \notin StopWords)

NgramWidth == 3

Ngrams(token) ==
    IF Len(token) < NgramWidth
    THEN <<token>>
    ELSE [i \in 1..(Len(token) - NgramWidth + 1) |-> SubSeq(token, i, i + NgramWidth - 1)]

NgramLetterUnit(tokens) == Concat([i \in DOMAIN tokens |-> Ngrams(tokens[i])])

RECURSIVE FirstSeen(_, _)
FirstSeen(terms, acc) ==
    IF terms = <<>> THEN acc
    ELSE FirstSeen(Tail(terms),
                   IF Head(terms) \in Range(acc) THEN acc ELSE Append(acc, Head(terms)))

\* term_index[i] is the term whose index is i; indices start at 1.
VocabularyUnit(terms) == FirstSeen(terms, <<>>)

\* dict.get(term, 0)
IndexOf(term_index, term) ==
    IF term \in Range(term_index)
    THEN CHOOSE i \in DOMAIN term_index : term_index[i] = term
    ELSE 0

OneHot(dim, idx) == [k \in 1..dim |-> IF k = idx + 1 THEN 1 ELSE 0]

WordHashingUnit(term_index, ngrams) ==
    Concat([i \in DOMAIN ngrams |->
              OneHot(Len(term_index) + 1, IndexOf(term_index, ngrams[i]))])

FixedLengthUnit(target, pad_value, pad_mode, truncate_mode, seq) ==
    LET n == Len(seq)
        padding == [k \in 1..(target - n) |-> pad_value]
    IN  IF n > target
        THEN IF truncate_mode = "pre"
             THEN SubSeq(seq, n - target + 1, n)
             ELSE SubSeq(seq, 1, target)
        ELSE IF n < target
             THEN IF pad_mode = "pre" THEN padding \o seq ELSE seq \o padding
             ELSE seq

-----------------------------------------------------------------------------
(* DataPack.                                                               *)

\* A table holds one row per distinct id, in the order the ids first occur.
Table(ids, texts) ==
    LET order == FirstSeen(ids, <<>>)
    IN  [k \in DOMAIN order |->
           [id |-> order[k],
            text |-> Str(texts[CHOOSE i \in DOMAIN ids :
                                  /\ ids[i] = order[k]
                                  /\ \A j \in 1..(i - 1) : ids[j] # order[k]]),
            length |-> NoLength]]

pack(inputs, stage) ==
    [kind |-> "DataPack",
     left |-> Table([i \in DOMAIN inputs |-> inputs[i].left_id],
                    [i \in DOMAIN inputs |-> inputs[i].text_left]),
     right |-> Table([i \in DOMAIN inputs |-> inputs[i].right_id],
                     [i \in DOMAIN inputs |-> inputs[i].text_right]),
     relation |-> [i \in DOMAIN inputs |-> <<inputs[i].left_id, inputs[i].right_id>>],
     context |-> EmptyContext]

\* The decorator of transform: the call is refused while no fitted context exists.
validate_context(obj) ==
    /\ obj.data_pack # None
    /\ obj.data_pack.context.keys # {}

-----------------------------------------------------------------------------
(* CDSSMPreprocessor.                                                      *)

__init__prefilled(text_length, pad_value, pad_mode, truncate_mode) ==
    [data_pack |-> [pack(<<>>, "train") EXCEPT !.context =
                      [keys |-> {"term_index"}, term_index |-> <<>>,
                       input_shapes |-> <<>>]],
     _dim_ngram |-> Unset,
     _text_length |-> text_length,
     _pad_value |-> pad_value,
     _pad_mode |-> pad_mode,
     _truncate_mode |-> truncate_mode]

__init__(text_length, pad_value, pad_mode, truncate_mode) ==
    [data_pack |-> None,
     _dim_ngram |-> Unset,
     _text_length |-> text_length,
     _pad_value |-> pad_value,
     _pad_mode |-> pad_mode,
     _truncate_mode |-> truncate_mode]

_prepare_process_units(text) ==
    StopRemovalUnit(PuncRemovalUnit(LowercaseUnit(TokenizeUnit(text))))

\* The n-grams one loop of fit adds to vocab.
FitTable(table) ==
    Concat([k \in DOMAIN table |->
              NgramLetterUnit(_prepare_process_units(table[k].text.chars))])

\* vocab starts as [] and is extended by the left loop, then the right loop.
fit_vocab_left_only(obj, dp) == FitTable(dp.left)

fit_vocab_incremental(obj, dp) ==
    (IF obj.data_pack = None THEN <<>> ELSE obj.data_pack.context.term_index)
        \o FitTable(dp.left) \o FitTable(dp.right)

fit_vocab(obj, dp) == FitTable(dp.left) \o FitTable(dp.right)

fit(obj, inputs) ==
    LET dp == pack(inputs, "train")
        vocab == fit_vocab(obj, dp)
        term_index == VocabularyUnit(vocab)
        dim == Len(term_index) + 1
    IN  [obj EXCEPT
           !.data_pack = [dp EXCEPT !.context =
               [keys |-> {"term_index", "input_shapes"},
                term_index |-> term_index,
                input_shapes |-> << <<obj._text_length, dim>>,
                                    <<obj._text_length, dim>> >>]],
           !._dim_ngram = dim]

fix_unit_length_rows(obj) == obj._text_length

\* The length FixedLengthUnit is constructed with.
fix_unit_length(obj) == obj._text_length * obj._dim_ngram

stored_length_capped(obj, length) == Min(length, obj._text_length * obj._dim_ngram)

\* length = min(length, self._text_length) * self._dim_ngram
stored_length(obj, length) == Min(length, obj._text_length) * obj._dim_ngram

\* np.reshape(text, (rows, -1)) is defined when rows divides the size.
CanReshape(flat, rows) == rows > 0 /\ Len(flat) % rows = 0

Reshape(flat, rows) ==
    LET cols == Len(flat) \div rows
    IN  [r \in 1..rows |-> SubSeq(flat, (r - 1) * cols + 1, r * cols)]

\* The flattened hashed sequence of one text: per term its n-grams, hashed,
\* then the per-term lists chained.
Flattened(term_index, chars) ==
    LET terms == _prepare_process_units(chars)
        ngrams == [i \in DOMAIN terms |-> NgramLetterUnit(<<terms[i]>>)]
        hashed == [i \in DOMAIN terms |-> WordHashingUnit(term_index, ngrams[i])]
    IN  Concat(hashed)

\* One pass of a row loop of transform: the row as stored, or what is raised.
TransformRow(obj, term_index, row) ==
    IF row.text.kind # "str"
    THEN [outcome |-> "TypeError", row |-> row]
    ELSE LET text == Flattened(term_index, row.text.chars)
             length == Len(text)
             fixed == FixedLengthUnit(fix_unit_length(obj), obj._pad_value,
                                      obj._pad_mode, obj._truncate_mode, text)
         IN  IF ~CanReshape(fixed, obj._text_length)
             THEN [outcome |-> "ValueError", row |-> row]
             ELSE [outcome |-> "ok",
                   row |-> [row EXCEPT
                              !.text = Arr(Reshape(fixed, obj._text_length)),
                              !.length = stored_length(obj, length)]]

\* A row loop: rows are rewritten in order up to the first one that raises.
RECURSIVE TransformTable(_, _, _, _)
TransformTable(obj, term_index, table, k) ==
    IF k > Len(table)
    THEN [outcome |-> "ok", table |-> table]
    ELSE LET r == TransformRow(obj, term_index, table[k])
         IN  IF r.outcome # "ok"
             THEN [outcome |-> r.outcome, table |-> table]
             ELSE TransformTable(obj, term_index, [table EXCEPT ![k] = r.row], k + 1)

repacks_any(stage) == stage \in {"train", "evaluate", "predict"}

\* The stages for which transform packs its inputs.
repacks(stage) == stage \in {"evaluate", "predict"}

Raised(obj, what) == [obj |-> obj, outcome |-> what, returned |-> None]

transform(obj, inputs, stage) ==
    IF ~validate_context(obj)
    THEN Raised(obj, "MissingContext")
    ELSE
    LET o1 == IF repacks(stage)
              THEN [obj EXCEPT !.data_pack = pack(inputs, stage)]
              ELSE obj
    IN  IF "term_index" \notin o1.data_pack.context.keys
        THEN Raised(o1, "KeyError")
        ELSE IF o1._dim_ngram = Unset
        THEN Raised(o1, "AttributeError")
        ELSE
        LET term_index == o1.data_pack.context.term_index
            l == TransformTable(o1, term_index, o1.data_pack.left, 1)
            o2 == [o1 EXCEPT !.data_pack.left = l.table]
        IN  IF l.outcome # "ok"
            THEN Raised(o2, l.outcome)
            ELSE
            LET r == TransformTable(o2, term_index, o2.data_pack.right, 1)
                o3 == [o2 EXCEPT !.data_pack.right = r.table]
            IN  IF r.outcome # "ok"
                THEN Raised(o3, r.outcome)
                ELSE [obj |-> o3, outcome |-> "ok", returned |-> o3.data_pack]

-----------------------------------------------------------------------------
(* The preprocessor as a state machine: a constructed instance, then any   *)
(* sequence of fit and transform calls.  last records the most recent call;*)
(* hist records what the most recent fit produced, and whether the         *)
(* vocabulary that fit replaced held a term absent from the fit's inputs.  *)

\* The n-grams of every left and right text of a list of input records.
PooledNgrams(inputs) ==
    UNION { Range(NgramLetterUnit(_prepare_process_units(inputs[i].text_left)))
              \cup Range(NgramLetterUnit(_prepare_process_units(inputs[i].text_right)))
            : i \in DOMAIN inputs }

NoCall == [op |-> "__init__", stage |-> "", inputs |-> <<>>,
           outcome |-> "ok", returned |-> None]

Init ==
    /\ \E tl \in 1..MaxTextLength, pv \in PadValues, pm \in Modes, tm \in Modes :
          self = __init__(tl, pv, pm, tm)
    /\ last = NoCall
    /\ hist = [fitted |-> FALSE, term_index |-> <<>>, dim |-> Unset,
               old_only |-> FALSE]

Fit ==
    \E inputs \in Inputs :
        LET o == fit(self, inputs)
        IN  /\ self' = o
            /\ last' = [op |-> "fit", stage |-> "train", inputs |-> inputs,
                        outcome |-> "ok", returned |-> [kind |-> "self"]]
            /\ hist' = [fitted |-> TRUE,
                        term_index |-> o.data_pack.context.term_index,
                        dim |-> o._dim_ngram,
                        old_only |-> Range(hist.term_index) \ PooledNgrams(inputs) # {}]

Transform ==
    \E inputs \in Inputs, stage \in Stages :
        LET t == transform(self, inputs, stage)
        IN  /\ self' = t.obj
            /\ last' = [op |-> "transform", stage |-> stage, inputs |-> inputs,
                        outcome |-> t.outcome, returned |-> t.returned]
            /\ UNCHANGED hist

Next == Fit \/ Transform

Spec == Init /\ [][Next]_vars

TypeOK ==
    /\ self.data_pack = None \/ self.data_pack.kind = "DataPack"
    /\ last.outcome \in {"ok", "MissingContext", "KeyError", "AttributeError",
                         "TypeError", "ValueError"}

-----------------------------------------------------------------------------
(* Properties.                                                             *)

IsTransform(call) == call.op = "transform"

Returned(call) == call.op = "transform" /\ call.outcome = "ok"

\* The dataset a transform call works on, as it is before the row loops.
Worked(obj, call) ==
    IF call.stage \in {"evaluate", "predict"}
    THEN pack(call.inputs, call.stage)
    ELSE obj.data_pack

ShapeOK(row, rows, cols) ==
    /\ row.text.kind = "array"
    /\ Len(row.text.arr) = rows
    /\ \A r \in DOMAIN row.text.arr : Len(row.text.arr[r]) = cols

AllRows(dp) == Range(dp.left) \cup Range(dp.right)

\* The number of scalars of the flattened hashed sequence of a raw row.
Observed(obj, row) == Len(Flattened(hist.term_index, row.text.chars))

\* C1: while fit has never been called, every transform call, whatever its
\* inputs and stage, raises the missing-context error and returns no dataset.
C1_TransformBeforeFitRaises ==
    (~hist.fitted /\ IsTransform(last)) =>
        /\ last.outcome = "MissingContext"
        /\ last.returned = None

C1_Witness ==
    /\ ~hist.fitted
    /\ IsTransform(last)
    /\ last.stage = "predict"
    /\ last.outcome = "MissingContext"

\* C2: after fit, a transform call of stage evaluate or predict does not
\* fail, and returns the dataset of its inputs with every text of shape
\* (text_length, vocab_dim) and every length at most text_length * vocab_dim.
C2_EvaluatePredictSucceeds ==
    (hist.fitted /\ IsTransform(last) /\ last.stage \in {"evaluate", "predict"}) =>
        /\ last.outcome = "ok"
        /\ last.returned.relation = pack(last.inputs, last.stage).relation
        /\ \A row \in AllRows(last.returned) :
              /\ ShapeOK(row, self._text_length, hist.dim)
              /\ row.length <= self._text_length * hist.dim

\* C3: once fit has completed, the retained term_index and vocab_dim are the
\* ones fit produced, whatever transform calls follow.
C3_VocabularyFixedAfterFit ==
    hist.fitted =>
        /\ "term_index" \in self.data_pack.context.keys
        /\ self.data_pack.context.term_index = hist.term_index
        /\ self._dim_ngram = hist.dim

\* C4: when fit returns, the context of the retained dataset holds the
\* vocabulary of the n-grams of all left and right texts, each term once,
\* and input_shapes = [(text_length, vocab_dim)] * 2 with
\* vocab_dim = |term_index| + 1; fit returns the preprocessor.
C4_FitStoresContext ==
    last.op = "fit" =>
        LET ctx == self.data_pack.context
            dim == Len(ctx.term_index) + 1
        IN  /\ ctx.keys = {"term_index", "input_shapes"}
            /\ Range(ctx.term_index) = PooledNgrams(last.inputs)
            /\ Cardinality(Range(ctx.term_index)) = Len(ctx.term_index)
            /\ self._dim_ngram = dim
            /\ ctx.input_shapes = << <<self._text_length, dim>>,
                                     <<self._text_length, dim>> >>
            /\ last.returned = [kind |-> "self"]

C4_Witness ==
    /\ last.op = "fit"
    /\ Len(last.inputs) = 2
    /\ Len(self.data_pack.context.term_index) >= 4
    /\ \E i \in DOMAIN last.inputs :
          Range(NgramLetterUnit(_prepare_process_units(last.inputs[i].text_right)))
             \ Range(FitTable(self.data_pack.left)) # {}

\* C5: every text of a dataset returned by transform has exactly text_length
\* rows of exactly vocab_dim columns.
C5_ReturnedShape ==
    Returned(last) =>
        \A row \in AllRows(last.returned) :
            ShapeOK(row, self._text_length, self._dim_ngram)

\* A returned dataset with a text whose flattened sequence was shorter than,
\* one equal to and one longer than text_length * vocab_dim.
C5_Witness ==
    /\ Returned(last)
    /\ last.returned.relation = pack(last.inputs, "train").relation
    /\ LET target == self._text_length * self._dim_ngram
           sizes == { Len(Flattened(hist.term_index, row.text.chars)) :
                        row \in AllRows(pack(last.inputs, "train")) }
       IN  /\ \E n \in sizes : n < target
           /\ \E n \in sizes : n = target
           /\ \E n \in sizes : n > target

\* C6: the length a transform call stores for a row is the number of scalars
\* of the row's flattened sequence before padding, capped at
\* text_length * vocab_dim.
C6_LengthIsObservedCapped ==
    [][Returned(last') =>
          LET dp == Worked(self, last')
          IN  /\ \A k \in DOMAIN dp.left :
                    self'.data_pack.left[k].length =
                       Min(Observed(self, dp.left[k]),
                           self._text_length * self._dim_ngram)
              /\ \A k \in DOMAIN dp.right :
                    self'.data_pack.right[k].length =
                       Min(Observed(self, dp.right[k]),
                           self._text_length * self._dim_ngram)]_vars

\* C7: a transform call that returned a dataset, repeated at once with the
\* same inputs and stage, returns a dataset with the same texts and lengths.
C7_TransformRepeatable ==
    [][(Returned(last) /\ IsTransform(last')
          /\ last'.stage = last.stage /\ last'.inputs = last.inputs) =>
              /\ last'.outcome = "ok"
              /\ last'.returned.left = last.returned.left
              /\ last'.returned.right = last.returned.right]_vars

\* C8: the length a transform call stores for a row is
\* min(observed_length, text_length) * vocab_dim, observed_length being the
\* number of scalars of the row's flattened sequence; it is a multiple of
\* vocab_dim and at most text_length * vocab_dim.
C8_StoredLengthFormula ==
    [][Returned(last') =>
          LET dp == Worked(self, last')
              Good(before, after) ==
                  /\ after.length =
                        Min(Observed(self, before), self._text_length) * self._dim_ngram
                  /\ after.length % self._dim_ngram = 0
                  /\ after.length <= self._text_length * self._dim_ngram
          IN  /\ \A k \in DOMAIN dp.left :
                    Good(dp.left[k], self'.data_pack.left[k])
              /\ \A k \in DOMAIN dp.right :
                    Good(dp.right[k], self'.data_pack.right[k])]_vars

\* A returned dataset with a row of length 0 and a row whose stored length
\* is the full text_length * vocab_dim.
C8_Witness ==
    /\ Returned(last)
    /\ \E row \in AllRows(last.returned) : row.length = 0
    /\ \E row \in AllRows(last.returned) :
          row.length = self._text_length * self._dim_ngram /\ row.length > 0

\* C9: after any fit call the instance is what fit of the same inputs makes
\* of a newly constructed preprocessor: no term of an earlier vocabulary
\* that is absent from the inputs remains, and the dataset is the inputs'.
C9_RefitNotIncremental ==
    last.op = "fit" =>
        /\ self = fit(__init__(self._text_length, self._pad_value,
                               self._pad_mode, self._truncate_mode),
                      last.inputs)
        /\ Range(self.data_pack.context.term_index) \subseteq PooledNgrams(last.inputs)
        /\ self._dim_ngram = Cardinality(PooledNgrams(last.inputs)) + 1
        /\ self.data_pack.relation =
              [i \in DOMAIN last.inputs |->
                 <<last.inputs[i].left_id, last.inputs[i].right_id>>]

\* A fit that replaced a vocabulary holding a term its own inputs lack.
C9_Witness ==
    /\ last.op = "fit"
    /\ hist.old_only

====
